---- MODULE Spec2Model ----
(***************************************************************************)
(* mini-online-judge: the grading engine of src/grader.py, and the         *)
(* session and routes of src/app.py that call it.                          *)
(*                                                                         *)
(* One call of run_in_subprocess(problem, code, time_limit, mem_limit_mb): *)
(* the parent (Supervisor) spawns one child running _execute, waits for it *)
(* with a wall-clock deadline, and either force-terminates it (tle) or     *)
(* reads the one-shot result channel.  The child applies resource limits,  *)
(* vets the source, executes it, runs the declared tests and puts one      *)
(* result on the channel.                                                  *)
(***************************************************************************)
EXTENDS Integers, Sequences, FiniteSets, TLC

(***************************************************************************)
(* Bounds of the model.                                                    *)
(***************************************************************************)
MaxNodes == 2      \* nodes of a submission's syntax tree, in ast.walk order
MaxTests == 2      \* test cases declared by the Problem

(***************************************************************************)
(* Program constants.                                                      *)
(***************************************************************************)
CpuLimit == 3          \* resource.setrlimit(RLIMIT_CPU, (3, 3))
DefaultMemLimit == 128 \* mem_limit_mb: int = 128

\* time_limit values tried: the caller's default 2.0 (below the CPU ceiling)
\* and one above the ceiling.
TimeLimits == {2, 4}
\* mem_limit_mb values tried: one too small for the interpreter to start a
\* thread under it, and the default.
MemLimits == {1, DefaultMemLimit}

None == [t |-> "none"]

(***************************************************************************)
(* Python values: the JSON-representable ones the problem bank uses, plus  *)
(* two kinds a submitted function can return that matter to the channel:   *)
(* an object that cannot be pickled (a generator) and a string larger than *)
(* the pipe's buffer.                                                      *)
(***************************************************************************)
PyNone    == [t |-> "null"]
PyInt(n)  == [t |-> "int", v |-> n]
PyStr(s)  == [t |-> "str", v |-> s]
PyList(s) == [t |-> "list", v |-> s]
PyGen     == [t |-> "generator"]
PyBigStr  == [t |-> "bigstr"]

L01 == PyList(<<PyInt(0), PyInt(1)>>)
L10 == PyList(<<PyInt(1), PyInt(0)>>)

\* isinstance(expected, list)
IsList(x) == x.t = "list"

\* Python's == on these values (a generator equals nothing but itself).
RECURSIVE PyEq(_, _)
PyEq(a, b) ==
    IF IsList(a) /\ IsList(b)
    THEN /\ Len(a.v) = Len(b.v)
         /\ \A i \in 1..Len(a.v) : PyEq(a.v[i], b.v[i])
    ELSE IF a.t = "generator" \/ b.t = "generator" THEN FALSE
    ELSE a = b

(***************************************************************************)
(* The Problem record: function_name and the ordered tests.  A test case   *)
(* is {args, kwargs, expected}; args is a list holding one positional      *)
(* argument, itself a list (as nums of two_sum), kwargs is the empty       *)
(* mapping as in src/problems.py.                                          *)
(***************************************************************************)
NoKwargs == <<>>

\* The argument list of test i of the pool: [[i]].
Args(i) == PyList(<<PyList(<<PyInt(i)>>)>>)

\* What nums.clear() in the function leaves of an argument list: [[]].
Cleared(args) == PyList(<<PyList(<<>>)>>)

TestCase(a, e) == [args |-> a, kwargs |-> NoKwargs, expected |-> e]

\* Three kinds of expected: a list of acceptable answers (two_sum), a scalar
\* (fib), and a list that is itself the single expected answer.
PoolTest(i) ==
    CASE i % 3 = 0 -> TestCase(Args(i), PyList(<<L01, L10>>))
      [] i % 3 = 1 -> TestCase(Args(i), PyInt(1))
      [] OTHER     -> TestCase(Args(i), L01)

\* The problems tried: n consecutive tests of the pool, from any offset.
ProblemOf(off, n) ==
    [function_name |-> "f", tests |-> [i \in 1..n |-> PoolTest(off + i - 1)]]

Problems == {ProblemOf(off, n) : off \in 0..1, n \in 0..MaxTests}

\* A problem with a single test, for the runs that vary the source instead.
OneTestProblems == {ProblemOf(0, 1)}

(***************************************************************************)
(* Submitted source.  Either ast.parse fails (syntax_error), or it yields  *)
(* a tree, kept as its nodes in ast.walk order.  Identifiers are sequences *)
(* of characters so that startswith("__") is computed, not assumed.        *)
(***************************************************************************)
ImportNode     == [kind |-> "Import"]
ImportFromNode == [kind |-> "ImportFrom"]
AttrNode(a)    == [kind |-> "Attribute", attr |-> a]
NameNode(n)    == [kind |-> "Name", id |-> n]
OtherNode      == [kind |-> "Other"]

AttrNames == {<<"_", "_", "c">>, <<"_", "c">>}
BannedNames == {"__import__", "eval", "exec", "open"}
\* The bare names tried: the banned ones and two that SAFE_BUILTINS binds.
NameIds == BannedNames \cup {"len", "getattr"}

Nodes == {ImportNode, ImportFromNode, OtherNode}
           \cup {AttrNode(a) : a \in AttrNames}
           \cup {NameNode(n) : n \in NameIds}

SeqsUpTo(S, n) == UNION {[1..k -> S] : k \in 0..n}

Source(t) == [syntax_error |-> FALSE, tree |-> t]
BadSyntax == [syntax_error |-> TRUE, tree |-> <<>>]

AllCodes == {BadSyntax} \cup {Source(t) : t \in SeqsUpTo(Nodes, MaxNodes)}

\* A few sources, for the runs that vary the problem and the function instead.
FewCodes == {BadSyntax, Source(<<OtherNode>>), Source(<<OtherNode, ImportNode>>)}

\* str.startswith
StartsWith(s, p) == Len(s) >= Len(p) /\ SubSeq(s, 1, Len(p)) = p

Raised(exc, msg) == [exc |-> exc, msg |-> msg]

\* The walk with isinstance(node, ast.Import) alone: "from m import x" passes.
NodeViolationImportOnly(node) ==
    IF node.kind = "Import"
    THEN Raised("SecurityError", "Import statements are not allowed")
    ELSE IF node.kind = "Attribute" /\ StartsWith(node.attr, <<"_", "_">>)
    THEN Raised("SecurityError", "Access to dunder attributes is not allowed")
    ELSE IF node.kind = "Name" /\ node.id \in BannedNames
    THEN Raised("SecurityError", "Usage of '" \o node.id \o "' is not allowed")
    ELSE None

\* What one node of the walk raises, if anything (grader.py 74-82).
NodeViolation(node) ==
    IF node.kind \in {"Import", "ImportFrom"}
    THEN Raised("SecurityError", "Import statements are not allowed")
    ELSE IF node.kind = "Attribute" /\ StartsWith(node.attr, <<"_", "_">>)
    THEN Raised("SecurityError", "Access to dunder attributes is not allowed")
    ELSE IF node.kind = "Name" /\ node.id \in BannedNames
    THEN Raised("SecurityError", "Usage of '" \o node.id \o "' is not allowed")
    ELSE None

\* for node in ast.walk(tree): the first node that raises ends the walk.
RECURSIVE WalkFrom(_, _)
WalkFrom(tree, i) ==
    IF i > Len(tree) THEN None
    ELSE IF NodeViolation(tree[i]) # None THEN NodeViolation(tree[i])
    ELSE WalkFrom(tree, i + 1)

\* _ensure_safe without its try/except: the parser's SyntaxError escapes.
EnsureSafeRaisesSyntaxError(code) ==
    IF code.syntax_error
    THEN Raised("SyntaxError", "invalid syntax")
    ELSE WalkFrom(code.tree, 1)

\* _ensure_safe(code): None when the source is accepted, else what it raises.
EnsureSafe(code) ==
    IF code.syntax_error
    THEN Raised("SecurityError", "SyntaxError: invalid syntax (line 1)")
    ELSE WalkFrom(code.tree, 1)

(***************************************************************************)
(* The Safe Execution Namespace: exec(code, ns, ns) resolves a bare name   *)
(* that the source does not bind itself in SAFE_BUILTINS, and nowhere      *)
(* else.                                                                   *)
(***************************************************************************)
SAFE_BUILTINS ==
    {"abs", "all", "any", "bool", "bytes", "callable", "chr", "complex",
     "dict", "divmod", "enumerate", "filter", "float", "format", "frozenset",
     "getattr", "hasattr", "hash", "hex", "int", "isinstance", "issubclass",
     "iter", "len", "list", "map", "max", "min", "next", "object", "oct",
     "ord", "pow", "print", "range", "repr", "reversed", "round", "set",
     "slice", "sorted", "str", "sum", "tuple", "zip"}

\* What calling a bound built-in gives the caller beyond a computed value:
\* getattr(obj, name) reads the attribute called name, whatever the string
\* name is (it is a string constant in the tree, not an Attribute node);
\* print writes to the process's standard output.
Gives(name) ==
    CASE name = "getattr" -> "attribute"
      [] name = "print"   -> "io"
      [] OTHER            -> "value"

(***************************************************************************)
(* Scoring and result building (grader.py 116-152).                        *)
(***************************************************************************)
\* ok = any(got == e for e in expected) if isinstance(expected, list)
\*      else got == expected
Score(got, expected) ==
    IF IsList(expected)
    THEN \E i \in 1..Len(expected.v) : PyEq(got, expected.v[i])
    ELSE PyEq(got, expected)

\* f"ERROR: {type(e).__name__}: {e}"
ErrorString(e) == "ERROR: " \o e.exc \o ": " \o e.msg

\* item = {"index", "args", "kwargs", "expected"} and its update on return
ItemReturned(idx, t, got) ==
    [index |-> idx, args |-> t.args, kwargs |-> t.kwargs,
     expected |-> t.expected,
     ok |-> Score(got, t.expected), got |-> got, error |-> PyNone]

\* ... and its update in the per-test except clause
ItemFaulted(idx, t, e) ==
    [index |-> idx, args |-> t.args, kwargs |-> t.kwargs,
     expected |-> t.expected,
     ok |-> FALSE, got |-> PyNone, error |-> PyStr(ErrorString(e))]

\* passed counted as len(tests)
CountAll(ts) == Len(ts)

RECURSIVE CountOk(_)
CountOk(ts) ==
    IF ts = <<>> THEN 0
    ELSE (IF ts[1].ok THEN 1 ELSE 0) + CountOk(Tail(ts))

OkResult(ts, elapsed) ==
    [status |-> "ok", tests |-> ts, elapsed |-> elapsed,
     summary |-> [total |-> Len(ts), passed |-> CountOk(ts)]]

ErrorResult(msg) == [status |-> "error", error |-> msg]

\* The tle result without its message, as the docstring of run_in_subprocess
\* writes it.
TleResultBare == [status |-> "tle"]

TleResult == [status |-> "tle", error |-> "Time Limit Exceeded"]

NoResultReturned == ErrorResult("No result returned")

(***************************************************************************)
(* What the submission can do when its code runs.  exec(code) either       *)
(* finishes (binding function_name or not), raises, or never returns; a    *)
(* call of the function returns a value, raises, exhausts the address      *)
(* space (MemoryError, with the memory still held), or never returns.      *)
(* An exception is a subclass of Exception unless it is one of the         *)
(* BaseException-only kinds (SystemExit, KeyboardInterrupt, ...).          *)
(***************************************************************************)
ZeroDiv  == Raised("ZeroDivisionError", "division by zero")
SysExit  == Raised("SystemExit", "0")
MemError == Raised("MemoryError", "")

IsException(e) == e.exc # "SystemExit"

GotValues == {PyInt(1), L01, L10, PyGen, PyBigStr}

\* pickling the result fails in the feeder thread when a got is not picklable
RECURSIVE HasGot(_, _)
HasGot(ts, kind) ==
    IF ts = <<>> THEN FALSE
    ELSE ts[1].got.t = kind \/ HasGot(Tail(ts), kind)

Picklable(msg) == msg.status # "ok" \/ ~HasGot(msg.tests, "generator")

\* the pickled result is larger than the pipe's buffer
Oversized(msg) == msg.status = "ok" /\ HasGot(msg.tests, "bigstr")

(***************************************************************************)
(* State.                                                                  *)
(***************************************************************************)
VARIABLES
    session,       \* web: the session, None when it holds no student_id
    response,      \* web: what the last request did, None before the first
    requests,      \* web: number of requests served
    problem,       \* run_in_subprocess argument: the Problem record
    code,          \* run_in_subprocess argument: the submitted source
    time_limit,    \* run_in_subprocess argument (wall-clock seconds)
    mem_limit_mb,  \* run_in_subprocess argument
    now,           \* wall clock, in seconds since the call
    ppc,           \* parent: where run_in_subprocess is
    result,        \* parent: the value returned, None until it returns
    spawned,       \* parent: number of proc.start() calls
    reads,         \* parent: number of results taken from the channel
    waited,        \* parent: how join(time_limit) ended ("none" before)
    observed,      \* parent: what proc.is_alive() answered ("none" before)
    at_return,     \* the child as it was when the parent returned, None before
    cpc,           \* child: where _execute is
    alive,         \* child: the process exists and has not exited
    cpu_limited,   \* child: RLIMIT_CPU was applied
    mem_limited,   \* child: RLIMIT_AS was applied
    starved,       \* child: the address-space limit leaves no room to allocate
    cpu,           \* child: CPU seconds consumed
    cproblem,      \* child: its own copy of the Problem record, None before
    fault,         \* child: the exception being handled, None if none
    defined,       \* child: function_name is bound in ns
    executed,      \* child: exec(code, ns, ns) was entered
    calls,         \* child: what each fn(*args, **kwargs) call did, in order
    tests,         \* child: the list of test outcomes built so far
    puts,          \* channel: number of successful out_q.put calls
    buffer,        \* channel: the queue's buffer in the child (not yet in the pipe)
    pipe,          \* channel: complete messages in the pipe
    partial,       \* channel: the message written in part, its writer blocked
    sigterm        \* a termination signal was sent to the child

web     == <<session, response, requests>>
inputs  == <<problem, code, time_limit, mem_limit_mb>>
parent  == <<ppc, result, spawned, reads, waited, observed, at_return>>
limits  == <<cpu_limited, mem_limited>>
child   == <<cpc, alive, cpu_limited, mem_limited, starved, cpu, cproblem,
             fault, defined, executed, calls, tests>>
channel == <<puts, buffer, pipe, partial>>
grading == <<inputs, now, parent, child, channel, sigterm>>
vars    == <<web, grading>>

InitWith(codes, problems) ==
    /\ problem \in problems
    /\ code \in codes
    /\ time_limit \in TimeLimits
    /\ mem_limit_mb \in MemLimits
    /\ now = 0
    /\ ppc = "start" /\ result = None /\ spawned = 0 /\ reads = 0
    /\ waited = "none" /\ observed = "none" /\ at_return = None
    /\ cpc = "unborn" /\ alive = FALSE
    /\ cpu_limited = FALSE /\ mem_limited = FALSE /\ starved = FALSE
    /\ cpu = 0 /\ cproblem = None
    /\ fault = None /\ defined = FALSE /\ executed = FALSE
    /\ calls = <<>> /\ tests = <<>>
    /\ puts = 0 /\ buffer = <<>> /\ pipe = <<>> /\ partial = None
    /\ sigterm = FALSE
    /\ session = None /\ response = None /\ requests = 0

\* Runs that vary the problem and what the function does.
Init == InitWith(FewCodes, Problems)

\* Runs that vary the submitted source.
InitVet == InitWith(AllCodes, OneTestProblems)

(***************************************************************************)
(* The child: _execute (grader.py 101-152) and the process around it.      *)
(***************************************************************************)
\* The process ends: normally after _execute returns, or with an exception
\* no except clause of _execute caught.
ChildEnds ==
    /\ alive' = FALSE
    /\ cpc' = "exited"

\* An exception leaves the try block of _execute from outside the per-test
\* guard: except SecurityError, except Exception, or neither.
RaiseInExecute(e) ==
    /\ fault' = e
    /\ IF e.exc = "SecurityError"
       THEN cpc' = "except_sec" /\ UNCHANGED alive
       ELSE IF IsException(e)
       THEN cpc' = "except_gen" /\ UNCHANGED alive
       ELSE ChildEnds

\* _limit_resources without its try/except: a failed setrlimit raises into
\* the try block of _execute.
ChildLimitResourcesUnguarded ==
    /\ alive /\ cpc = "limits"
    /\ \E c \in BOOLEAN, m \in BOOLEAN :
          /\ cpu_limited' = c
          /\ mem_limited' = m
          /\ starved' = (m /\ mem_limit_mb < DefaultMemLimit)
          /\ IF c /\ m
             THEN cpc' = "vet" /\ UNCHANGED <<fault, alive>>
             ELSE RaiseInExecute(Raised("OSError", "setrlimit failed"))
    /\ UNCHANGED <<web, inputs, now, parent, cpu, cproblem, defined, executed,
                   calls, tests, channel, sigterm>>

\* _limit_resources(mem_limit_mb): each setrlimit may fail, silently.
\* An address space smaller than the interpreter needs leaves the child
\* unable to allocate (seen with 1 and 20 MB: "can't start new thread").
ChildLimitResources ==
    /\ alive /\ cpc = "limits"
    /\ \E c \in BOOLEAN, m \in BOOLEAN :
          /\ cpu_limited' = c
          /\ mem_limited' = m
          /\ starved' = (m /\ mem_limit_mb < DefaultMemLimit)
    /\ cpc' = "vet"
    /\ UNCHANGED <<web, inputs, now, parent, alive, cpu, cproblem, fault,
                   defined, executed, calls, tests, channel, sigterm>>

\* _ensure_safe(code)
ChildVet ==
    /\ alive /\ cpc = "vet"
    /\ IF EnsureSafe(code) = None
       THEN cpc' = "exec" /\ UNCHANGED <<fault, alive>>
       ELSE RaiseInExecute(EnsureSafe(code))
    /\ UNCHANGED <<web, inputs, now, parent, limits, starved, cpu, cproblem,
                   defined, executed, calls, tests, channel, sigterm>>

\* ns = {"__builtins__": SAFE_BUILTINS}; exec(code, ns, ns)
ChildExec ==
    /\ alive /\ cpc = "exec"
    /\ executed' = TRUE
    /\ \/ \E d \in BOOLEAN :
             /\ defined' = d
             /\ cpc' = "lookup"
             /\ UNCHANGED <<fault, alive>>
       \/ \E e \in {ZeroDiv, SysExit} :
             /\ RaiseInExecute(e)
             /\ UNCHANGED defined
       \/ /\ cpc' = "loop"
          /\ UNCHANGED <<fault, alive, defined>>
    /\ UNCHANGED <<web, inputs, now, parent, limits, starved, cpu, cproblem,
                   calls, tests, channel, sigterm>>

\* fname = problem["function_name"]; if fname not in ns: raise SecurityError
ChildLookup ==
    /\ alive /\ cpc = "lookup"
    /\ IF defined
       THEN cpc' = "tests" /\ UNCHANGED <<fault, alive>>
       ELSE RaiseInExecute(Raised("SecurityError",
               "Function '" \o cproblem.function_name \o "' is not defined"))
    /\ UNCHANGED <<web, inputs, now, parent, limits, starved, cpu, cproblem,
                   defined, executed, calls, tests, channel, sigterm>>

\* A child sharing the parent's memory (a thread): the write lands in the
\* parent's record too.
WriteArgsShared(idx, a) ==
    /\ cproblem' = [cproblem EXCEPT !.tests[idx].args = a]
    /\ problem' = [problem EXCEPT !.tests[idx].args = a]

\* The child's memory is its own: what the function does to its arguments
\* changes the child's copy of the Problem record and nothing else.
WriteArgs(idx, a) ==
    /\ cproblem' = [cproblem EXCEPT !.tests[idx].args = a]
    /\ UNCHANGED problem

\* One iteration of the test loop: item, then fn(*args, **kwargs) under the
\* per-test guard, then tests.append(item).  The function returns a value
\* (having changed its arguments in place or not), raises, exhausts the
\* address space it was limited to, or never returns.  item["args"] is the
\* argument list itself, not a copy of it.
ChildRunTest ==
    /\ alive /\ cpc = "tests" /\ Len(tests) < Len(cproblem.tests)
    /\ LET idx == Len(tests) + 1
           t   == cproblem.tests[idx]
       IN \/ \E got \in GotValues :
                /\ calls' = Append(calls, [k |-> "return", v |-> got])
                /\ tests' = Append(tests, ItemReturned(idx, t, got))
                /\ UNCHANGED <<cpc, alive, fault, starved, cproblem, problem>>
          \/ /\ WriteArgs(idx, Cleared(t.args))
             /\ calls' = Append(calls, [k |-> "return", v |-> L01])
             /\ tests' = Append(tests,
                   ItemReturned(idx, [t EXCEPT !.args = Cleared(t.args)], L01))
             /\ UNCHANGED <<cpc, alive, fault, starved>>
          \/ \E e \in {ZeroDiv, SysExit} :
                /\ calls' = Append(calls, [k |-> "raise", e |-> e])
                /\ IF IsException(e)
                   THEN /\ tests' = Append(tests, ItemFaulted(idx, t, e))
                        /\ UNCHANGED <<cpc, alive, fault>>
                   ELSE /\ RaiseInExecute(e)
                        /\ UNCHANGED tests
                /\ UNCHANGED <<starved, cproblem, problem>>
          \/ /\ mem_limited
             /\ calls' = Append(calls, [k |-> "raise", e |-> MemError])
             /\ tests' = Append(tests, ItemFaulted(idx, t, MemError))
             /\ starved' = TRUE
             /\ UNCHANGED <<cpc, alive, fault, cproblem, problem>>
          \/ /\ calls' = Append(calls, [k |-> "loop"])
             /\ cpc' = "loop"
             /\ UNCHANGED <<tests, alive, fault, starved, cproblem, problem>>
    /\ UNCHANGED <<web, code, time_limit, mem_limit_mb, now, parent, limits,
                   cpu, defined, executed, channel, sigterm>>

\* A put that raises after the result is in the queue's buffer: the generic
\* except clause then puts a second result.
ChildPutOkThenRaise ==
    /\ alive /\ cpc = "tests" /\ Len(tests) = Len(cproblem.tests)
    /\ buffer' = Append(buffer, OkResult(tests, now))
    /\ puts' = puts + 1
    /\ \/ cpc' = "flush" /\ UNCHANGED <<fault, alive>>
       \/ RaiseInExecute(Raised("RuntimeError", "can't start new thread"))
    /\ UNCHANGED <<web, inputs, now, parent, limits, starved, cpu, cproblem,
                   defined, executed, calls, tests, pipe, partial, sigterm>>

\* out_q.put(...) of the ok result (grader.py 139-148).  put() starts the
\* queue's feeder thread; with no address space left that raises, inside
\* the try block.
ChildPutOk ==
    /\ alive /\ cpc = "tests" /\ Len(tests) = Len(cproblem.tests)
    /\ \/ /\ buffer' = Append(buffer, OkResult(tests, now))
          /\ puts' = puts + 1
          /\ cpc' = "flush"
          /\ UNCHANGED <<fault, alive>>
       \/ /\ starved
          /\ RaiseInExecute(Raised("RuntimeError", "can't start new thread"))
          /\ UNCHANGED <<buffer, puts>>
    /\ UNCHANGED <<web, inputs, now, parent, limits, starved, cpu, cproblem,
                   defined, executed, calls, tests, pipe, partial, sigterm>>

\* The two except clauses of _execute (grader.py 149-152).  An exception
\* raised by put() inside an except clause is caught by nothing.
ChildPutError ==
    /\ alive /\ cpc \in {"except_sec", "except_gen"}
    /\ LET msg == IF cpc = "except_sec" THEN fault.msg ELSE ErrorString(fault)
       IN \/ /\ buffer' = Append(buffer, ErrorResult(msg))
             /\ puts' = puts + 1
             /\ cpc' = "flush"
             /\ UNCHANGED <<fault, alive>>
          \/ /\ starved
             /\ ChildEnds
             /\ UNCHANGED <<buffer, puts, fault>>
    /\ UNCHANGED <<web, inputs, now, parent, limits, starved, cpu, cproblem,
                   defined, executed, calls, tests, pipe, partial, sigterm>>

\* The queue's feeder thread, which the exiting process waits for: it
\* pickles the buffered result and writes it to the pipe.  A result that
\* cannot be pickled is dropped; one larger than the pipe's buffer is
\* written in part and the writer blocks until the parent reads.
ChildFlush ==
    /\ alive /\ cpc = "flush"
    /\ LET msg == Head(buffer)
       IN /\ buffer' = Tail(buffer)
          /\ IF ~Picklable(msg)
             THEN cpc' = "exit" /\ UNCHANGED <<pipe, partial>>
             ELSE IF Oversized(msg)
             THEN cpc' = "blocked" /\ partial' = msg /\ UNCHANGED pipe
             ELSE cpc' = "exit" /\ pipe' = Append(pipe, msg) /\ UNCHANGED partial
    /\ UNCHANGED <<web, inputs, now, parent, alive, limits, starved, cpu,
                   cproblem, fault, defined, executed, calls, tests, puts,
                   sigterm>>

\* _execute has returned and the feeder thread is done: the process exits.
ChildExit ==
    /\ alive /\ cpc = "exit"
    /\ ChildEnds
    /\ UNCHANGED <<web, inputs, now, parent, limits, starved, cpu, cproblem,
                   fault, defined, executed, calls, tests, channel, sigterm>>

\* The termination signal acts on the child.  Nothing forces this step to
\* happen before the parent goes on: the signal is asynchronous and a
\* process may ignore it.
ChildSigterm ==
    /\ alive /\ sigterm
    /\ alive' = FALSE
    /\ cpc' = "killed"
    /\ UNCHANGED <<web, inputs, now, parent, limits, starved, cpu, cproblem,
                   fault, defined, executed, calls, tests, channel, sigterm>>

(***************************************************************************)
(* The clock.  It matters while the parent waits in join(time_limit): a    *)
(* second passes, and the parent's wait returns no later than the second   *)
(* its deadline falls in.  A child that is in a loop may have spent the    *)
(* second on the CPU, and the kernel kills it when its CPU time reaches    *)
(* the RLIMIT_CPU it was given.                                            *)
(***************************************************************************)
\* The clock with a CPU ceiling sized from time_limit, one second above it.
TickCeilingFromTimeLimit ==
    /\ ppc = "join"
    /\ now < time_limit
    /\ now' = now + 1
    /\ IF alive /\ cpc = "loop"
       THEN \E burn \in 0..1 :
               /\ cpu' = cpu + burn
               /\ IF cpu_limited /\ cpu + burn >= time_limit + 1
                  THEN alive' = FALSE /\ cpc' = "killed"
                  ELSE UNCHANGED <<alive, cpc>>
       ELSE UNCHANGED <<alive, cpc, cpu>>
    /\ UNCHANGED <<web, inputs, parent, limits, starved, cproblem, fault,
                   defined, executed, calls, tests, channel, sigterm>>

Tick ==
    /\ ppc = "join"
    /\ now < time_limit
    /\ now' = now + 1
    /\ IF alive /\ cpc = "loop"
       THEN \E burn \in 0..1 :
               /\ cpu' = cpu + burn
               /\ IF cpu_limited /\ cpu + burn >= CpuLimit
                  THEN alive' = FALSE /\ cpc' = "killed"
                  ELSE UNCHANGED <<alive, cpc>>
       ELSE UNCHANGED <<alive, cpc, cpu>>
    /\ UNCHANGED <<web, inputs, parent, limits, starved, cproblem, fault,
                   defined, executed, calls, tests, channel, sigterm>>

\* The function never returned from its last call.
LoopsForever == calls # <<>> /\ calls[Len(calls)].k = "loop"

\* What the returning parent leaves behind.
ChildNow == [alive |-> alive, looping |-> LoopsForever]

(***************************************************************************)
(* The parent: run_in_subprocess (grader.py 155-179).                      *)
(***************************************************************************)
\* q = mp.Queue(); proc = mp.Process(...); proc.start()
Spawn ==
    /\ ppc = "start"
    /\ spawned' = spawned + 1
    /\ alive' = TRUE
    /\ cpc' = "limits"
    /\ cproblem' = problem
    /\ ppc' = "join"
    /\ UNCHANGED <<web, waited, inputs, now, result, reads, observed,
                   at_return, limits, starved, cpu, fault, defined, executed,
                   calls, tests, channel, sigterm>>

\* proc.join() with no timeout
JoinNoTimeout ==
    /\ ppc = "join"
    /\ ~alive
    /\ waited' = "exited"
    /\ ppc' = "check"
    /\ UNCHANGED <<web, inputs, now, result, spawned, reads, observed,
                   at_return, child, channel, sigterm>>

\* proc.join(timeout=time_limit) returns: the child exited or time is up
Join ==
    /\ ppc = "join"
    /\ ~alive \/ now >= time_limit
    /\ waited' = IF alive THEN "timeout" ELSE "exited"
    /\ ppc' = "check"
    /\ UNCHANGED <<web, inputs, now, result, spawned, reads, observed,
                   at_return, child, channel, sigterm>>

\* if proc.is_alive():
CheckAlive ==
    /\ ppc = "check"
    /\ observed' = IF alive THEN "alive" ELSE "exited"
    /\ ppc' = IF alive THEN "terminate" ELSE "read"
    /\ UNCHANGED <<web, waited, inputs, now, result, spawned, reads,
                   at_return, child, channel, sigterm>>

\* proc.terminate()
Terminate ==
    /\ ppc = "terminate"
    /\ sigterm' = TRUE
    /\ ppc' = "grace"
    /\ UNCHANGED <<web, waited, inputs, now, result, spawned, reads,
                   observed, at_return, child, channel>>

\* The timeout branch looking into the channel before it gives up.
ReturnTleUnlessWritten ==
    /\ ppc = "grace"
    /\ result' = IF pipe # <<>> THEN Head(pipe) ELSE TleResult
    /\ at_return' = ChildNow
    /\ ppc' = "done"
    /\ UNCHANGED <<web, waited, inputs, now, spawned, reads, observed, child,
                   channel, sigterm>>

\* proc.join(0.1) returns, the child having exited or a tenth of a second
\* having passed; return {"status": "tle", "error": "Time Limit Exceeded"}
ReturnTle ==
    /\ ppc = "grace"
    /\ result' = TleResult
    /\ at_return' = ChildNow
    /\ ppc' = "done"
    /\ UNCHANGED <<web, waited, inputs, now, spawned, reads, observed, child,
                   channel, sigterm>>

\* result = q.get(): a blocking read, which waits while the channel is empty.
ReadResultBlocking ==
    /\ ppc = "read"
    /\ pipe # <<>>
    /\ result' = Head(pipe)
    /\ pipe' = Tail(pipe)
    /\ reads' = reads + 1
    /\ at_return' = ChildNow
    /\ ppc' = "done"
    /\ UNCHANGED <<web, waited, inputs, now, spawned, observed, child, puts,
                   buffer, partial, sigterm>>

\* result = q.get_nowait(), or the "No result returned" error on
\* queue.Empty; return result
ReadResult ==
    /\ ppc = "read"
    /\ IF pipe # <<>>
       THEN /\ result' = Head(pipe)
            /\ pipe' = Tail(pipe)
            /\ reads' = reads + 1
       ELSE /\ result' = NoResultReturned
            /\ UNCHANGED <<pipe, reads>>
    /\ at_return' = ChildNow
    /\ ppc' = "done"
    /\ UNCHANGED <<web, waited, inputs, now, spawned, observed, child, puts,
                   buffer, partial, sigterm>>

Next ==
    \/ Spawn \/ Join \/ CheckAlive \/ Terminate \/ ReturnTle
    \/ ReadResult
    \/ ChildLimitResources \/ ChildVet \/ ChildExec \/ ChildLookup
    \/ ChildRunTest \/ ChildPutOk \/ ChildPutError \/ ChildFlush \/ ChildExit
    \/ ChildSigterm
    \/ Tick

Spec == Init /\ [][Next]_vars

SpecVet == InitVet /\ [][Next]_vars

\* The parent runs (it is one thread of a scheduled process) and time passes.
ParentStep ==
    Spawn \/ Join \/ CheckAlive \/ Terminate \/ ReturnTle
    \/ ReadResult

Fairness == WF_vars(ParentStep) /\ WF_vars(Tick)

FairSpec == Spec /\ Fairness

(***************************************************************************)
(* The web application (src/app.py): one session's requests.  Strings the  *)
(* client submits are sequences of characters, so that strip() and the     *)
(* pattern are computed.                                                   *)
(***************************************************************************)
MaxRequests == 3   \* requests of the session

Id65001 == <<"6", "5", "0", "0", "1">>
Id65002 == <<"6", "5", "0", "0", "2">>
Id65003 == <<"6", "5", "0", "0", "3">>

\* app.config["ALLOWED_IDS"]
ALLOWED_IDS == {Id65001, Id65002, Id65003}

\* app.config["ID_PATTERN"] = r"^\d{5,10}$", as the lengths it admits
ID_PATTERN == [min |-> 5, max |-> 10]

IsDigit(c) == c \in {"0", "1", "2", "3", "4", "5", "6", "7", "8", "9"}

IsSpace(c) == c \in {" "}

\* str.strip()
RECURSIVE LStrip(_)
LStrip(str) ==
    IF str # <<>> /\ IsSpace(Head(str)) THEN LStrip(Tail(str)) ELSE str

RECURSIVE RStrip(_)
RStrip(str) ==
    IF str # <<>> /\ IsSpace(str[Len(str)])
    THEN RStrip(SubSeq(str, 1, Len(str) - 1))
    ELSE str

Strip(str) == RStrip(LStrip(str))

\* re.match(pattern, student_id) is not None
ReMatch(pattern, str) ==
    /\ Len(str) >= pattern.min /\ Len(str) <= pattern.max
    /\ \A i \in 1..Len(str) : IsDigit(str[i])

\* The student_id form values tried; <<>> is also what a missing field gives.
FormIds ==
    {Id65001, Id65002, <<" ">> \o Id65001, Id65002 \o <<" ">>,
     <<"9", "9", "9", "9", "9">>, <<"6", "5">>, <<>>}

\* ok set by the whitelist or by the pattern, whichever admits the id.
LoginOkEither(student_id, allowed_ids, pattern) ==
    student_id \in allowed_ids \/ ReMatch(pattern, student_id)

\* ok of do_login: the whitelist when it is non-empty, else the pattern
LoginOk(student_id, allowed_ids, pattern) ==
    IF allowed_ids # {} THEN student_id \in allowed_ids
    ELSE IF pattern # None THEN ReMatch(pattern, student_id)
    ELSE FALSE

\* PROBLEMS of src/problems.py, by id
Registry == {"two_sum", "fib", "is_palindrome"}

\* get_problem(pid): PROBLEMS.get(pid)
GetProblem(pid) == IF pid \in Registry THEN [id |-> pid] ELSE None

\* Request bodies of /api/run: not JSON, JSON that is not an object, or an
\* object whose problem_id and code are strings, numbers or absent.
BadJson  == [json |-> "invalid"]
ListJson == [json |-> "array"]
Payload(pid, c) == [json |-> "object", problem_id |-> pid, code |-> c]

Payloads ==
    {BadJson, ListJson}
      \cup {Payload(pid, c) :
               pid \in {PyStr("two_sum"), PyStr("fib"), PyStr("nope"),
                        PyInt(1), PyNone},
               c \in {PyStr("def f(): pass"), PyInt(1), PyNone}}

\* isinstance(x, str)
IsStr(x) == x.t = "str"

Served == requests' = requests + 1

\* session["student_id"] = student_id
LoggedIn(student_id) == [student_id |-> student_id]

\* POST /login
DoLogin ==
    /\ requests < MaxRequests
    /\ \E form \in FormIds :
          LET student_id == Strip(form)
              ok == LoginOk(student_id, ALLOWED_IDS, ID_PATTERN)
          IN /\ session' = IF ok THEN LoggedIn(student_id) ELSE session
             /\ response' = [req |-> "login", form |-> form, ok |-> ok,
                             status |-> 302, graded |-> None]
    /\ Served
    /\ UNCHANGED grading

\* GET /logout: session.clear()
Logout ==
    /\ requests < MaxRequests
    /\ session' = None
    /\ response' = [req |-> "logout", status |-> 302, graded |-> None]
    /\ Served
    /\ UNCHANGED grading

\* What api_run answers to a body, and the call of the grader it makes.
RunOutcome(body) ==
    IF session = None
    THEN [status |-> 302, graded |-> None]
    ELSE IF body.json = "invalid"
    THEN [status |-> 400, graded |-> None]
    ELSE IF body.json # "object"
    THEN [status |-> 500, graded |-> None]
    ELSE IF ~IsStr(body.problem_id) \/ ~IsStr(body.code)
    THEN [status |-> 400, graded |-> None]
    ELSE IF GetProblem(body.problem_id.v) = None
    THEN [status |-> 404, graded |-> None]
    ELSE [status |-> 200,
          graded |-> [problem |-> GetProblem(body.problem_id.v),
                      code |-> body.code.v,
                      time_limit |-> 2, mem_limit_mb |-> DefaultMemLimit]]

\* POST /api/run, behind login_required
ApiRun ==
    /\ requests < MaxRequests
    /\ \E body \in Payloads :
          response' = [req |-> "run", body |-> body, by |-> session,
                       status |-> RunOutcome(body).status,
                       graded |-> RunOutcome(body).graded]
    /\ Served
    /\ UNCHANGED <<session, grading>>

InitApp ==
    /\ InitWith({BadSyntax}, OneTestProblems)
    /\ time_limit = 2 /\ mem_limit_mb = DefaultMemLimit

NextApp == DoLogin \/ Logout \/ ApiRun

SpecApp == InitApp /\ [][NextApp]_vars

(***************************************************************************)
(* Properties.                                                             *)
(***************************************************************************)
Done == ppc = "done"

\* A well-formed GradeResult: the fields each status carries.
WellFormed(r) ==
    \/ /\ r.status = "ok"
       /\ DOMAIN r = {"status", "tests", "elapsed", "summary"}
       /\ DOMAIN r.summary = {"total", "passed"}
    \/ /\ r.status = "error"
       /\ DOMAIN r = {"status", "error"}
       /\ r.error \in STRING
    \/ /\ r.status = "tle"
       /\ DOMAIN r = {"status", "error"}
       /\ r.error = "Time Limit Exceeded"

C2_Terminates ==
    /\ <>Done
    /\ [](spawned <= 1)
    /\ [](Done => spawned = 1)

\* The child neither exited nor wrote, and the parent has returned.
C2_Witness ==
    Done /\ spawned = 1 /\ at_return.alive /\ alive /\ cpc = "loop" /\ puts = 0

(***************************************************************************)
(* What a source contains, read off its tree.                              *)
(***************************************************************************)
HasImport(c) ==
    /\ ~c.syntax_error
    /\ \E i \in 1..Len(c.tree) : c.tree[i].kind \in {"Import", "ImportFrom"}

HasDunderAttribute(c) ==
    /\ ~c.syntax_error
    /\ \E i \in 1..Len(c.tree) :
          /\ c.tree[i].kind = "Attribute"
          /\ Len(c.tree[i].attr) >= 2
          /\ c.tree[i].attr[1] = "_" /\ c.tree[i].attr[2] = "_"

HasBannedName(c) ==
    /\ ~c.syntax_error
    /\ \E i \in 1..Len(c.tree) :
          /\ c.tree[i].kind = "Name"
          /\ c.tree[i].id \in {"__import__", "eval", "exec", "open"}

\* The messages a SecurityError of the vettor carries.
SecurityMessages ==
    {"Import statements are not allowed",
     "Access to dunder attributes is not allowed",
     "Usage of '__import__' is not allowed", "Usage of 'eval' is not allowed",
     "Usage of 'exec' is not allowed", "Usage of 'open' is not allowed"}

NoSubmissionCodeRan == ~executed /\ calls = <<>>

\* C3 as claimed: a source with an import statement is graded status error
\* with a security message, whatever time_limit and mem_limit_mb are.
C3_Original ==
    (HasImport(code) /\ Done) =>
        /\ result.status = "error"
        /\ result.error \in SecurityMessages
        /\ NoSubmissionCodeRan

\* C3, amended: for a source with an import statement no submission code and
\* no test runs, and the result is never ok.  It is status error with a
\* security message whenever the parent reads the child's result from the
\* channel; otherwise it is tle (the child had not exited at the deadline)
\* or the error "No result returned" (the child died without writing).
C3_ImportRejected ==
    HasImport(code) =>
        /\ NoSubmissionCodeRan
        /\ Done =>
              /\ result.status # "ok"
              /\ reads = 1 =>
                    result.status = "error" /\ result.error \in SecurityMessages
              /\ reads = 0 => result \in {TleResult, NoResultReturned}
              /\ (observed = "exited" /\ ~starved) => reads = 1

C3_Witness ==
    /\ HasImport(code) /\ Done /\ reads = 1 /\ Len(code.tree) = MaxNodes
    /\ result = ErrorResult("Import statements are not allowed")

Range(f) == {f[i] : i \in DOMAIN f}

Messages ==
    Range(buffer) \cup Range(pipe) \cup (IF result = None THEN {} ELSE {result})

OkMessages == {m \in Messages : m.status = "ok"}

\* The outcomes of test i carry test i's declaration.
Declared(ts) ==
    \A i \in 1..Len(ts) :
        /\ ts[i].index = i
        /\ ts[i].args = problem.tests[i].args
        /\ ts[i].kwargs = problem.tests[i].kwargs
        /\ ts[i].expected = problem.tests[i].expected

\* C5 as claimed: an ok result holds exactly one outcome per declared test
\* case, in declared order: the i-th outcome has index i and the args,
\* kwargs and expected of the i-th declared test case.
C5_Original ==
    /\ Len(tests) <= Len(problem.tests) /\ Declared(tests)
    /\ \A m \in OkMessages :
          Len(m.tests) = Len(problem.tests) /\ Declared(m.tests)

\* In the pool, the tests whose expected is declared as a set of acceptable
\* answers; the others declare one expected value.
DeclaresAcceptableSet(t) == t.args.v[1].v[1].v % 3 = 0

\* C6 as claimed: for a call that returned, ok is true iff got equals a
\* member of expected when expected is a set of acceptable values, and iff
\* got equals expected otherwise, a sequence included.
C6_Original ==
    \A i \in 1..Len(tests) :
        tests[i].error = PyNone =>
            tests[i].ok =
                IF DeclaresAcceptableSet(problem.tests[i])
                THEN \E j \in 1..Len(tests[i].expected.v) :
                         PyEq(tests[i].got, tests[i].expected.v[j])
                ELSE PyEq(tests[i].got, tests[i].expected)

\* C7 as claimed: a fault raised by the function on test k leaves outcome k
\* failed, with got null and an error string, and the loop goes on.
C7_Original ==
    \A k \in 1..Len(calls) :
        calls[k].k = "raise" =>
            /\ Len(tests) >= k
            /\ ~tests[k].ok
            /\ tests[k].got = PyNone
            /\ tests[k].error # PyNone
            /\ cpc \in {"tests", "loop", "flush", "blocked", "exit", "exited",
                        "killed", "except_gen"}

\* C8 as claimed: the child is alive when the wait of time_limit expires,
\* so the parent signals it, reads nothing and returns tle.
C8_Original ==
    (Done /\ waited = "timeout") =>
        result = TleResult /\ reads = 0 /\ sigterm

\* C8, amended: when is_alive(), asked after the wait has returned, answers
\* true, the parent sends the termination signal and returns tle; it reads
\* nothing from the channel, whatever the child has written to it.  (A
\* child that exits between the end of the wait and that question is
\* treated as having exited in time.)
C8_TleDiscardsChannel ==
    /\ observed = "alive" =>
          /\ reads = 0
          /\ ppc \in {"terminate", "grace", "done"}
          /\ ppc \in {"grace", "done"} => sigterm
          /\ Done => result = TleResult
    /\ sigterm => observed = "alive"
    /\ (Done /\ result = TleResult) => observed = "alive"

\* tle is returned while a complete ok result sits in the pipe.
C8_Witness ==
    /\ Done /\ observed = "alive" /\ result = TleResult
    /\ pipe # <<>> /\ Head(pipe).status = "ok"

\* C9 as claimed: for a function that loops forever, with time_limit below
\* the CPU ceiling, tle is returned and the child is no longer alive at
\* that moment.
C9_Original ==
    (Done /\ at_return.looping /\ time_limit < CpuLimit) =>
        result = TleResult /\ ~at_return.alive

\* C10: the child exited in time and the channel is empty: the read does
\* not wait (it is enabled whatever the channel holds, the child being
\* gone), and "No result returned" is returned.
C10_EmptyChannel ==
    /\ ppc = "read" => (~alive /\ partial = None /\ ENABLED ReadResult)
    /\ (Done /\ observed = "exited" /\ reads = 0) => result = NoResultReturned
    /\ (Done /\ observed = "exited" /\ reads = 1) => pipe = <<>>

\* The kernel killed the child at its CPU ceiling, before the deadline and
\* before it wrote.
C10_Witness ==
    /\ Done /\ observed = "exited" /\ reads = 0 /\ result = NoResultReturned
    /\ cpc = "killed" /\ cpu = CpuLimit /\ puts = 0 /\ now < time_limit

(***************************************************************************)
(* The channel as the child leaves it.                                     *)
(***************************************************************************)
\* Results on their way: buffered, written in part, or complete in the pipe.
InFlight == Len(buffer) + Len(pipe) + (IF partial = None THEN 0 ELSE 1)

\* C11 as claimed: the child has run to the end of _execute, or died of a
\* fault, without being killed: the channel holds a result (or the parent
\* has taken it).
C11_Original ==
    cpc = "exited" => (pipe # <<>> \/ reads = 1)

\* C12: the channel is written at most once, only by the child, and read at
\* most once, only by the parent and only after the child has exited; what
\* is read or on its way never exceeds what was put.
C12_WrittenOnceReadOnce ==
    /\ [](puts <= 1 /\ reads <= 1 /\ InFlight + reads <= puts)
    /\ [][puts' # puts =>
             /\ alive /\ cpc \in {"tests", "except_sec", "except_gen"}
             /\ puts' = puts + 1 /\ buffer' # buffer /\ UNCHANGED parent]_vars
    /\ [][reads' # reads =>
             /\ ~alive /\ ppc = "read" /\ observed = "exited"
             /\ reads' = reads + 1 /\ UNCHANGED <<child, puts>>]_vars

\* A fault was raised while writing the ok result, the generic except clause
\* wrote the one result, and the parent read it.
C12_Witness ==
    /\ Done /\ fault # None /\ fault.exc = "RuntimeError"
    /\ Len(calls) = MaxTests
    /\ puts = 1 /\ reads = 1
    /\ result = ErrorResult("ERROR: RuntimeError: can't start new thread")

NotDefined == Raised("SecurityError", "Function 'f' is not defined")

\* C13 as claimed: function_name is not bound after the top-level code ran:
\* no test case is invoked and the child, unless it is killed first, writes
\* the error result saying so.
C13_Original ==
    (executed /\ ~defined /\ fault = NotDefined) =>
        /\ calls = <<>>
        /\ cpc \in {"except_sec", "killed"} \/ puts = 1
        /\ \A m \in Range(buffer) \cup Range(pipe) :
               m = ErrorResult(NotDefined.msg)

\* C14 as claimed: in a source the vettor accepted and the child executed,
\* every bare name that resolves in SAFE_BUILTINS gives a computed value
\* and nothing else, and none of the deny-listed names is bound.
C14_Original ==
    /\ SAFE_BUILTINS \cap BannedNames = {}
    /\ executed =>
          \A i \in 1..Len(code.tree) :
              (code.tree[i].kind = "Name" /\ code.tree[i].id \in SAFE_BUILTINS)
                  => Gives(code.tree[i].id) = "value"

(***************************************************************************)
(* The parent's state and the child's.                                     *)
(***************************************************************************)
\* C15: grading leaves the parent's Problem record as it was (the record is
\* the registry's own entry, get_problem returning it uncopied), whatever
\* the function did to its arguments in the child.
C15_ParentStateUnchanged ==
    /\ [][problem' = problem]_vars
    /\ [](problem \in Problems)
    /\ [](cproblem # None =>
             /\ cproblem.function_name = problem.function_name
             /\ Len(cproblem.tests) = Len(problem.tests))

\* The function cleared its argument in the child, the result reports the
\* cleared argument, and the parent's record still has the declared one.
C15_Witness ==
    /\ Done /\ result.status = "ok" /\ Len(result.tests) >= 1
    /\ cproblem.tests[1].args = Cleared(problem.tests[1].args)
    /\ result.tests[1].args = cproblem.tests[1].args
    /\ problem.tests[1].args = Args(0)

\* C16: in every ok result total is the number of outcomes, which is the
\* number of declared test cases, and passed is the number of outcomes with
\* ok true; a correct two_sum answer on a single declared test gives
\* total 1 and passed 1.
C16_Summary ==
    \A m \in OkMessages \cup (IF partial = None THEN {} ELSE {partial}) :
        /\ m.summary.total = Len(m.tests)
        /\ m.summary.total = Len(problem.tests)
        /\ m.summary.passed = Cardinality({i \in 1..Len(m.tests) : m.tests[i].ok})
        /\ 0 <= m.summary.passed /\ m.summary.passed <= m.summary.total
        /\ (problem = ProblemOf(0, 1) /\ m.tests[1].got \in {L01, L10}) =>
              m.summary = [total |-> 1, passed |-> 1]

C16_Witness ==
    /\ Done /\ problem = ProblemOf(0, 1) /\ result.status = "ok"
    /\ result.tests[1].got = L10
    /\ result.summary = [total |-> 1, passed |-> 1]

(***************************************************************************)
(* Resource limits.                                                        *)
(***************************************************************************)
Min(a, b) == IF a < b THEN a ELSE b

\* The child has been on the CPU for every second of the call, up to the
\* ceiling.
CpuBound == cpu >= Min(now, CpuLimit)

C18_CpuCeiling ==
    /\ cpu_limited => (cpu <= CpuLimit /\ (cpu = CpuLimit => cpc = "killed"))
    /\ (Done /\ at_return.looping /\ time_limit < CpuLimit) =>
          result = TleResult
    /\ (Done /\ at_return.looping /\ CpuBound /\ time_limit > CpuLimit
             /\ cpu_limited) =>
          /\ result = NoResultReturned
          /\ waited = "exited" /\ observed = "exited" /\ ~sigterm
          /\ puts = 0 /\ cpu = CpuLimit

C18_Witness ==
    /\ Done /\ at_return.looping /\ CpuBound /\ cpu_limited
    /\ time_limit > CpuLimit /\ time_limit \in TimeLimits
    /\ result = NoResultReturned /\ ~at_return.alive

\* C19 as claimed: the child finished all tests and put its ok result, one
\* that can be pickled, before the deadline (the wait ended because the
\* child exited, or the result is the one its writer is blocked on): that
\* result is returned, whatever its size.
C19_Original ==
    (/\ Done /\ fault = None /\ puts = 1
     /\ Len(tests) = Len(problem.tests)
     /\ Picklable(OkResult(tests, 0))
     /\ \/ waited = "exited"
        \/ partial # None /\ partial.elapsed < time_limit) =>
        /\ result.status = "ok"
        /\ result.tests = tests

(***************************************************************************)
(* The web application.                                                    *)
(***************************************************************************)
LastWas(req) == response # None /\ response.req = req

\* The grader is called only for a logged-in session, a body whose
\* problem_id and code are strings, and a problem_id of the registry.
GradedOnlyWhenAllowed ==
    (response # None /\ response.graded # None) =>
        /\ response.req = "run" /\ response.status = 200
        /\ session # None /\ response.by = session
        /\ response.body.json = "object"
        /\ IsStr(response.body.problem_id) /\ IsStr(response.body.code)
        /\ response.body.problem_id.v \in Registry
        /\ response.graded.problem = [id |-> response.body.problem_id.v]

\* The session holds a student_id from a successful login up to the next
\* logout, and a failed login leaves it as it was.
SessionSteps ==
    [][/\ (session' # session /\ session' # None) =>
             (response'.req = "login" /\ response'.ok)
       /\ (LastWas("login")' /\ response'.ok) =>
             session' = LoggedIn(Strip(response'.form))
       /\ (LastWas("login")' /\ ~response'.ok) => session' = session
       /\ LastWas("logout")' => session' = None
       /\ LastWas("run")' => session' = session]_vars

\* C20 as claimed: a login succeeds iff the id as submitted is in
\* ALLOWED_IDS.
C20_Original ==
    LastWas("login") => (response.ok <=> response.form \in ALLOWED_IDS)

\* C20, amended: the grader is called only for a session that holds a
\* student_id, a body whose problem_id and code are strings and a
\* problem_id of the registry; a login succeeds iff the submitted id,
\* stripped of surrounding whitespace, is in ALLOWED_IDS (the set is not
\* empty, and ID_PATTERN admits ids that are refused); the session holds
\* the stripped id of the last successful login not followed by a logout,
\* and a failed login leaves it unchanged.
C20_GradedOnlyLoggedIn ==
    /\ []GradedOnlyWhenAllowed
    /\ [](LastWas("login") =>
             (response.ok <=> Strip(response.form) \in ALLOWED_IDS))
    /\ [](ALLOWED_IDS # {})
    /\ [](session # None => session.student_id \in ALLOWED_IDS)
    /\ SessionSteps

\* A login, a logout, and a run that is redirected to the login page
\* although its body names a problem of the registry.
C20_Witness ==
    /\ requests = 3 /\ session = None /\ LastWas("run")
    /\ response.status = 302 /\ response.graded = None
    /\ response.body = Payload(PyStr("two_sum"), PyStr("def f(): pass"))

====
